---- MODULE Spec2Model ----
(***************************************************************************)
(* binary-rs: BinaryReader / BinaryWriter over a Stream (src/src/lib.rs).  *)
(*                                                                         *)
(* The facades encode fixed-width primitives with bincode and strings as   *)
(* an 8-byte length prefix followed by UTF-8 bytes.  The Stream trait is   *)
(* declared in lib.rs; its two implementations (filestream, memorystream)  *)
(* are modules outside lib.rs, so the medium is modelled from the Stream   *)
(* contract of the design document.                                        *)
(***************************************************************************)
EXTENDS Integers, Sequences, FiniteSets, TLC

(***************************************************************************)
(* Bounds of the model.                                                    *)
(***************************************************************************)
\* failures a faulty medium may have in a run
MaxFaults == 1
\* bytes a short write may fall short by
MaxShort == 1

(***************************************************************************)
(* Values.  An integer value is [n |-> k] when it lies in                  *)
(* -2^31 .. 2^31-1; a wider one is [big |-> its little-endian bytes].      *)
(* A float is its IEEE-754 fields.  A string is a sequence of Unicode      *)
(* scalar values.                                                          *)
(***************************************************************************)
Byte == 0..255

IntTypes == {"i8", "u8", "i16", "u16", "i32", "u32", "i64", "u64", "isize", "usize"}

FloatTypes == {"f32", "f64"}

PrimTypes == IntTypes \cup FloatTypes

SignedTypes == {"i8", "i16", "i32", "i64", "isize"}

\* bincode's fixed-width size of a primitive (isize/usize travel as i64/u64)
serialized_size(ty) ==
    CASE ty \in {"i8", "u8"} -> 1
      [] ty \in {"i16", "u16"} -> 2
      [] ty \in {"i32", "u32", "f32"} -> 4
      [] ty \in {"i64", "u64", "isize", "usize", "f64"} -> 8

RECURSIVE LeBytes(_, _)
\* the w low bytes of the natural n, least significant first
LeBytes(n, w) ==
    IF w = 0 THEN <<>> ELSE <<n % 256>> \o LeBytes(n \div 256, w - 1)

RECURSIVE LeValue(_)
\* the natural a little-endian byte run denotes
LeValue(bs) ==
    IF bs = <<>> THEN 0 ELSE bs[1] + 256 * LeValue(Tail(bs))

Complement(bs) == [i \in 1..Len(bs) |-> 255 - bs[i]]

IsBig(v) == "big" \in DOMAIN v

\* two's-complement little-endian bytes of an integer value
IntToBytes(v, w) ==
    IF IsBig(v) THEN v.big
    ELSE IF v.n >= 0 THEN LeBytes(v.n, w)
    ELSE Complement(LeBytes(-(v.n + 1), w))

AllAre(bs, from, b) == \A i \in from..Len(bs) : bs[i] = b

\* the integer value of a byte run of a signed or unsigned type
BytesToInt(bs, signed) ==
    LET w == Len(bs)
        top == bs[w]
        low == IF w > 4 THEN SubSeq(bs, 1, 4) ELSE bs
    IN  IF signed /\ top >= 128
        THEN IF w <= 4 \/ (AllAre(bs, 5, 255) /\ bs[4] >= 128)
             THEN [n |-> (-1) - LeValue(Complement(low))]
             ELSE [big |-> bs]
        ELSE IF (w < 4) \/ (w = 4 /\ top < 128)
                \/ (w > 4 /\ AllAre(bs, 5, 0) /\ bs[4] < 128)
             THEN [n |-> LeValue(low)]
             ELSE [big |-> bs]

\* IEEE-754 single: sign(1) exp(8) mant(23), little-endian
F32ToBytes(f) ==
    << f.mant % 256,
       (f.mant \div 256) % 256,
       (f.mant \div 65536) + 128 * (f.exp % 2),
       (f.exp \div 2) + 128 * f.sign >>

BytesToF32(bs) ==
    [ sign |-> bs[4] \div 128,
      exp  |-> 2 * (bs[4] % 128) + (bs[3] \div 128),
      mant |-> bs[1] + 256 * bs[2] + 65536 * (bs[3] % 128) ]

\* IEEE-754 double: sign(1) exp(11) mant(52 = mhi(26) mlo(26)), little-endian
F64ToBytes(f) ==
    << f.mlo % 256,
       (f.mlo \div 256) % 256,
       (f.mlo \div 65536) % 256,
       (f.mlo \div 16777216) + 4 * (f.mhi % 64),
       (f.mhi \div 64) % 256,
       (f.mhi \div 16384) % 256,
       (f.mhi \div 4194304) + 16 * (f.exp % 16),
       (f.exp \div 16) + 128 * f.sign >>

BytesToF64(bs) ==
    [ sign |-> bs[8] \div 128,
      exp  |-> 16 * (bs[8] % 128) + (bs[7] \div 16),
      mhi  |-> (bs[4] \div 4) + 64 * bs[5] + 16384 * bs[6] + 4194304 * (bs[7] % 16),
      mlo  |-> bs[1] + 256 * bs[2] + 65536 * bs[3] + 16777216 * (bs[4] % 4) ]

\* bincode::serialize(&value) for a primitive of type ty
serialize(ty, v) ==
    CASE ty = "f32" -> F32ToBytes(v)
      [] ty = "f64" -> F64ToBytes(v)
      [] OTHER -> IntToBytes(v, serialized_size(ty))

\* bincode::deserialize(&buffer) to a primitive of type ty: a buffer shorter
\* than the type is an error, trailing bytes are ignored
deserialize(ty, bs) ==
    LET w == serialized_size(ty) IN
    IF Len(bs) < w THEN [tag |-> "Err", err |-> [kind |-> "BinCodeErr"]]
    ELSE LET b == SubSeq(bs, 1, w) IN
         [tag |-> "Ok",
          val |-> CASE ty = "f32" -> BytesToF32(b)
                    [] ty = "f64" -> BytesToF64(b)
                    [] OTHER -> BytesToInt(b, ty \in SignedTypes)]

\* UTF-8 bytes of one Unicode scalar value
Utf8Char(c) ==
    IF c < 128 THEN <<c>>
    ELSE IF c < 2048 THEN <<192 + (c \div 64), 128 + (c % 64)>>
    ELSE IF c < 65536
         THEN <<224 + (c \div 4096), 128 + ((c \div 64) % 64), 128 + (c % 64)>>
    ELSE <<240 + (c \div 262144), 128 + ((c \div 4096) % 64),
           128 + ((c \div 64) % 64), 128 + (c % 64)>>

RECURSIVE as_bytes(_)
\* String::as_bytes: the UTF-8 bytes of a string
as_bytes(s) ==
    IF s = <<>> THEN <<>> ELSE Utf8Char(Head(s)) \o as_bytes(Tail(s))

IsCont(bs, i) == i <= Len(bs) /\ bs[i] >= 128 /\ bs[i] < 192

\* the first scalar of a byte run: [n |-> bytes used, c |-> scalar], n = 0 if invalid
Utf8First(bs) ==
    LET b == bs[1] IN
    IF b < 128 THEN [n |-> 1, c |-> b]
    ELSE IF b >= 194 /\ b < 224 /\ IsCont(bs, 2)
         THEN [n |-> 2, c |-> 64 * (b - 192) + (bs[2] - 128)]
    ELSE IF b >= 224 /\ b < 240 /\ IsCont(bs, 2) /\ IsCont(bs, 3)
         THEN LET c == 4096 * (b - 224) + 64 * (bs[2] - 128) + (bs[3] - 128)
              IN  IF c >= 2048 /\ ~(c >= 55296 /\ c < 57344)
                  THEN [n |-> 3, c |-> c] ELSE [n |-> 0, c |-> 0]
    ELSE IF b >= 240 /\ b < 245 /\ IsCont(bs, 2) /\ IsCont(bs, 3) /\ IsCont(bs, 4)
         THEN LET c == 262144 * (b - 240) + 4096 * (bs[2] - 128)
                       + 64 * (bs[3] - 128) + (bs[4] - 128)
              IN  IF c >= 65536 /\ c < 1114112
                  THEN [n |-> 4, c |-> c] ELSE [n |-> 0, c |-> 0]
    ELSE [n |-> 0, c |-> 0]

RECURSIVE from_utf8(_)
\* String::from_utf8: Ok(string) or Err(FromUtf8Error)
from_utf8(bs) ==
    IF bs = <<>> THEN [tag |-> "Ok", val |-> <<>>]
    ELSE LET f == Utf8First(bs) IN
         IF f.n = 0 THEN [tag |-> "Err", err |-> [kind |-> "Utf8Error"]]
         ELSE LET rest == from_utf8(SubSeq(bs, f.n + 1, Len(bs))) IN
              IF rest.tag = "Err" THEN rest
              ELSE [tag |-> "Ok", val |-> <<f.c>> \o rest.val]

(***************************************************************************)
(* Results and errors (lib.rs 14-37, 59-66).                               *)
(***************************************************************************)
StreamErrorKinds == {"OpenError", "WriteError", "ReadError", "SeekError", "TellError"}

Ok(v) == [tag |-> "Ok", val |-> v]

\* a Stream's Err(StreamError::e)
StreamErr(e) == [tag |-> "Err", err |-> e]

\* impl From<StreamError> for BinaryError, and the explicit
\* Err(e) => Err(BinaryError::StreamError(e)) arms
From_StreamError(e) == [tag |-> "Err", err |-> [kind |-> "StreamError", e |-> e]]

\* Err(e) => Err(BinaryError::BinCodeErr(e)), impl From<Box<bincode::ErrorKind>>
From_BinCodeErr(r) == [tag |-> "Err", err |-> [kind |-> "BinCodeErr"]]

\* impl From<FromUtf8Error> for BinaryError
From_FromUtf8Error(r) == [tag |-> "Err", err |-> [kind |-> "Utf8Error"]]

\* vec![0; n] could not be allocated: the call does not return
Panic == [tag |-> "Panic"]

(***************************************************************************)
(* The Stream contract (trait at lib.rs 86-91; behaviour from the design   *)
(* document, section 4.1).  A stream is [buf, pos]; an operation returns   *)
(* the stream after it, its result, and for a read the bytes delivered.    *)
(* The outcome o is the medium's choice: 0 is a healthy operation, -1 a    *)
(* failed one, k > 0 a write that stops k bytes short.                     *)
(***************************************************************************)
Max(a, b) == IF a >= b THEN a ELSE b

\* buf with the first n bytes of bytes placed at offset pos, grown as needed
Overwrite(buf, pos, bytes, n) ==
    [i \in 1..Max(Len(buf), pos + n) |->
        IF i > pos /\ i <= pos + n THEN bytes[i - pos] ELSE buf[i]]

Stream_write(st, bytes, o) ==
    IF o < 0 THEN [st |-> st, res |-> StreamErr("WriteError")]
    ELSE LET n == Max(Len(bytes) - o, 0) IN
         [st  |-> [buf |-> Overwrite(st.buf, st.pos, bytes, n), pos |-> st.pos + n],
          res |-> Ok(n)]

Stream_read(st, n, o) ==
    IF o # 0 \/ st.pos + n > Len(st.buf)
    THEN [st |-> st, res |-> StreamErr("ReadError"), data |-> <<>>]
    ELSE [st   |-> [st EXCEPT !.pos = st.pos + n],
          res  |-> Ok(n),
          data |-> SubSeq(st.buf, st.pos + 1, st.pos + n)]

Stream_seek(st, to, o) ==
    IF o # 0 \/ to > Len(st.buf)
    THEN [st |-> st, res |-> StreamErr("SeekError")]
    ELSE [st |-> [st EXCEPT !.pos = to], res |-> Ok(to)]

Stream_tell(st, o) ==
    IF o # 0 THEN [st |-> st, res |-> StreamErr("TellError")]
    ELSE [st |-> st, res |-> Ok(st.pos)]

\* one Stream operation as a call's trace keeps it: which, the length of the
\* buffer handed over (the offset, for a seek), and what the stream returned
OpRec(op, len, res) == [op |-> op, len |-> len, res |-> res]

\* what a facade call yields: the stream after it, the value returned, and the
\* Stream operations it issued, in order
Done(st, ret, ops) == [st |-> st, ret |-> ret, ops |-> ops]

(***************************************************************************)
(* BinaryReader (lib.rs 93-291).                                           *)
(***************************************************************************)
\* a seek_to that answers from the requested offset without moving the stream
BinaryReader_seek_to_unmoved(st, to, o) == Done(st, Ok(to), <<>>)

BinaryReader_seek_to(st, to, o) ==
    LET r == Stream_seek(st, to, o) IN
    Done(r.st,
         IF r.res.tag = "Ok" THEN Ok(r.res.val) ELSE From_StreamError(r.res.err),
         <<OpRec("seek", to, r.res)>>)

BinaryReader_get_cur_pos(st, o) ==
    LET r == Stream_tell(st, o) IN
    Done(r.st,
         IF r.res.tag = "Ok" THEN Ok(r.res.val) ELSE From_StreamError(r.res.err),
         <<OpRec("tell", 0, r.res)>>)

\* the body every read_<T> shares: vec![0; width], one stream.read(..)?, then
\* deserialize
read_fixed(st, ty, width, o) ==
    LET r == Stream_read(st, width, o)
        ops == <<OpRec("read", width, r.res)>>
    IN  IF r.res.tag = "Err" THEN Done(r.st, From_StreamError(r.res.err), ops)
        ELSE LET value == deserialize(ty, r.data) IN
             Done(r.st, IF value.tag = "Ok" THEN value ELSE From_BinCodeErr(value), ops)

read_f32(st, o) == read_fixed(st, "f32", 4, o)

read_f64(st, o) == read_fixed(st, "f64", 8, o)

read_isize(st, o) == read_fixed(st, "isize", 8, o)

read_usize(st, o) == read_fixed(st, "usize", 8, o)

read_u64(st, o) == read_fixed(st, "u64", 8, o)

read_i64(st, o) == read_fixed(st, "i64", 8, o)

\* a read_u32 whose scratch buffer has the width of a u16
read_u32_two_bytes(st, o) == read_fixed(st, "u32", 2, o)

read_u32(st, o) == read_fixed(st, "u32", 4, o)

read_i32(st, o) == read_fixed(st, "i32", 4, o)

read_u16(st, o) == read_fixed(st, "u16", 2, o)

read_i16(st, o) == read_fixed(st, "i16", 2, o)

read_u8(st, o) == read_fixed(st, "u8", 1, o)

read_i8(st, o) == read_fixed(st, "i8", 1, o)

\* a read_string that decodes lossily: ill-formed text is replaced, not refused
read_string_lossy(st, o1, o2, alloc) ==
    LET a == read_usize(st, o1) IN
    IF a.ret.tag = "Err" THEN a
    ELSE IF IsBig(a.ret.val) THEN Done(a.st, Panic, a.ops)
    ELSE LET r == Stream_read(a.st, a.ret.val.n, o2)
             ops == a.ops \o <<OpRec("read", a.ret.val.n, r.res)>>
         IN  IF r.res.tag = "Err" THEN Done(r.st, From_StreamError(r.res.err), ops)
             ELSE LET string == from_utf8(r.data) IN
                  Done(r.st, IF string.tag = "Ok" THEN string ELSE Ok(<<65533>>), ops)

\* read_usize()?, vec![0; str_len], stream.read(&mut chars)?, String::from_utf8(chars)?
\* alloc: whether a buffer of 2^31 bytes or more can be had
read_string(st, o1, o2, alloc) ==
    LET a == read_usize(st, o1) IN
    IF a.ret.tag = "Err" THEN a
    ELSE IF IsBig(a.ret.val)
    THEN IF alloc /\ a.ret.val.big[8] < 128
         THEN Done(a.st, From_StreamError("ReadError"),
                   a.ops \o <<OpRec("read", 2147483647, StreamErr("ReadError"))>>)
         ELSE Done(a.st, Panic, a.ops)
    ELSE LET str_len == a.ret.val.n
             r == Stream_read(a.st, str_len, o2)
             ops == a.ops \o <<OpRec("read", str_len, r.res)>>
         IN  IF r.res.tag = "Err" THEN Done(r.st, From_StreamError(r.res.err), ops)
             ELSE LET string == from_utf8(r.data) IN
                  Done(r.st,
                       IF string.tag = "Ok" THEN string ELSE From_FromUtf8Error(string),
                       ops)

\* a read_bytes that hands back its scratch buffer whatever the stream said
read_bytes_lenient(st, length, o) ==
    LET r == Stream_read(st, length, o) IN
    Done(r.st, Ok(IF r.res.tag = "Ok" THEN r.data ELSE [i \in 1..length |-> 0]),
         <<OpRec("read", length, r.res)>>)

read_bytes(st, length, o) ==
    LET r == Stream_read(st, length, o) IN
    Done(r.st,
         IF r.res.tag = "Ok" THEN Ok(r.data) ELSE From_StreamError(r.res.err),
         <<OpRec("read", length, r.res)>>)

(***************************************************************************)
(* BinaryWriter (lib.rs 297-473).                                          *)
(***************************************************************************)
BinaryWriter_seek_to(st, to, o) ==
    LET r == Stream_seek(st, to, o) IN
    Done(r.st,
         IF r.res.tag = "Ok" THEN Ok(r.res.val) ELSE From_StreamError(r.res.err),
         <<OpRec("seek", to, r.res)>>)

BinaryWriter_get_cur_pos(st, o) ==
    LET r == Stream_tell(st, o) IN
    Done(r.st,
         IF r.res.tag = "Ok" THEN Ok(r.res.val) ELSE From_StreamError(r.res.err),
         <<OpRec("tell", 0, r.res)>>)

\* a write_<T> that reports the length of what it encoded, not the stream's count
write_fixed_reports_len(st, ty, value, o) ==
    LET data == serialize(ty, value)
        r == Stream_write(st, data, o)
    IN  Done(r.st,
             IF r.res.tag = "Ok" THEN Ok(Len(data)) ELSE From_StreamError(r.res.err),
             <<OpRec("write", Len(data), r.res)>>)

\* the body every write_<T> shares: serialize(&value)?, one stream.write(&data),
\* the stream's count handed back
write_fixed(st, ty, value, o) ==
    LET data == serialize(ty, value)
        r == Stream_write(st, data, o)
    IN  Done(r.st,
             IF r.res.tag = "Ok" THEN Ok(r.res.val) ELSE From_StreamError(r.res.err),
             <<OpRec("write", Len(data), r.res)>>)

write_f32(st, value, o) == write_fixed(st, "f32", value, o)

write_f64(st, value, o) == write_fixed(st, "f64", value, o)

write_isize(st, value, o) == write_fixed(st, "isize", value, o)

\* a write_usize of the width of a 32-bit host's usize
write_usize_four_bytes(st, value, o) ==
    LET data == IntToBytes(value, 4)
        r == Stream_write(st, data, o)
    IN  Done(r.st,
             IF r.res.tag = "Ok" THEN Ok(r.res.val) ELSE From_StreamError(r.res.err),
             <<OpRec("write", Len(data), r.res)>>)

write_usize(st, value, o) == write_fixed(st, "usize", value, o)

write_u64(st, value, o) == write_fixed(st, "u64", value, o)

write_i64(st, value, o) == write_fixed(st, "i64", value, o)

write_u32(st, value, o) == write_fixed(st, "u32", value, o)

write_i32(st, value, o) == write_fixed(st, "i32", value, o)

write_u16(st, value, o) == write_fixed(st, "u16", value, o)

write_i16(st, value, o) == write_fixed(st, "i16", value, o)

write_u8(st, value, o) == write_fixed(st, "u8", value, o)

write_i8(st, value, o) == write_fixed(st, "i8", value, o)

\* a write_string whose prefix counts characters
write_string_char_count(st, value, o1, o2) ==
    LET bytes == as_bytes(value)
        a == write_usize(st, [n |-> Len(value)], o1)
    IN  IF a.ret.tag = "Err" THEN a
        ELSE LET r == Stream_write(a.st, bytes, o2) IN
             Done(r.st,
                  IF r.res.tag = "Ok" THEN Ok(r.res.val) ELSE From_StreamError(r.res.err),
                  a.ops \o <<OpRec("write", Len(bytes), r.res)>>)

\* a write_string that drops the ? after write_usize
write_string_unchecked(st, value, o1, o2) ==
    LET bytes == as_bytes(value)
        a == write_usize(st, [n |-> Len(bytes)], o1)
        r == Stream_write(a.st, bytes, o2)
    IN  Done(r.st,
             IF r.res.tag = "Ok" THEN Ok(r.res.val) ELSE From_StreamError(r.res.err),
             a.ops \o <<OpRec("write", Len(bytes), r.res)>>)

\* a write_string that frames prefix and payload into one buffer and writes it once
write_string_one_write(st, value, o1, o2) ==
    LET bytes == as_bytes(value)
        data == serialize("usize", [n |-> Len(bytes)]) \o bytes
        r == Stream_write(st, data, o1)
    IN  Done(r.st,
             IF r.res.tag = "Ok" THEN Ok(r.res.val) ELSE From_StreamError(r.res.err),
             <<OpRec("write", Len(data), r.res)>>)

\* value.as_bytes(), write_usize(bytes.len())?, stream.write(&bytes.to_vec())
write_string(st, value, o1, o2) ==
    LET bytes == as_bytes(value)
        a == write_usize(st, [n |-> Len(bytes)], o1)
    IN  IF a.ret.tag = "Err" THEN a
        ELSE LET r == Stream_write(a.st, bytes, o2) IN
             Done(r.st,
                  IF r.res.tag = "Ok" THEN Ok(r.res.val) ELSE From_StreamError(r.res.err),
                  a.ops \o <<OpRec("write", Len(bytes), r.res)>>)

write_bytes(st, data, o) ==
    LET r == Stream_write(st, data, o) IN
    Done(r.st,
         IF r.res.tag = "Ok" THEN Ok(r.res.val) ELSE From_StreamError(r.res.err),
         <<OpRec("write", Len(data), r.res)>>)

\* read_<T> and write_<T> by the name of T
read_prim(ty, st, o) ==
    CASE ty = "f32" -> read_f32(st, o)     [] ty = "f64" -> read_f64(st, o)
      [] ty = "isize" -> read_isize(st, o) [] ty = "usize" -> read_usize(st, o)
      [] ty = "u64" -> read_u64(st, o)     [] ty = "i64" -> read_i64(st, o)
      [] ty = "u32" -> read_u32(st, o)     [] ty = "i32" -> read_i32(st, o)
      [] ty = "u16" -> read_u16(st, o)     [] ty = "i16" -> read_i16(st, o)
      [] ty = "u8" -> read_u8(st, o)       [] ty = "i8" -> read_i8(st, o)

write_prim(ty, st, v, o) ==
    CASE ty = "f32" -> write_f32(st, v, o)     [] ty = "f64" -> write_f64(st, v, o)
      [] ty = "isize" -> write_isize(st, v, o) [] ty = "usize" -> write_usize(st, v, o)
      [] ty = "u64" -> write_u64(st, v, o)     [] ty = "i64" -> write_i64(st, v, o)
      [] ty = "u32" -> write_u32(st, v, o)     [] ty = "i32" -> write_i32(st, v, o)
      [] ty = "u16" -> write_u16(st, v, o)     [] ty = "i16" -> write_i16(st, v, o)
      [] ty = "u8" -> write_u8(st, v, o)       [] ty = "i8" -> write_i8(st, v, o)

(***************************************************************************)
(* Inputs of a run.  A sample is a typed value; a run's caller writes the  *)
(* samples of one input set, each once and in any order, and reads with    *)
(* the types of that set.  An input set is a sample next to a raw byte     *)
(* run, or ill-formed text next to a string, on a medium that may fail; or *)
(* the three values of the design document's scenario, on a medium that    *)
(* does not.                                                               *)
(***************************************************************************)
I(k) == [n |-> k]

F32(s, e, m) == [sign |-> s, exp |-> e, mant |-> m]

F64(s, e, h, l) == [sign |-> s, exp |-> e, mhi |-> h, mlo |-> l]

S(ty, v) == [ty |-> ty, val |-> v]

\* 3.14159 = 0x400921F9F01B866E
Pi == F64(0, 1024, 38305404, 1803886)

\* "héllo"
Hello == <<104, 233, 108, 108, 111>>

\* a length prefix of 1 followed by a byte no UTF-8 text contains
BadText == <<1, 0, 0, 0, 0, 0, 0, 0, 255>>

PrimSamples ==
    { S("i8", I(-128)), S("i8", I(5)), S("u8", I(0)), S("u8", I(255)),
      S("i16", I(-32768)), S("i16", I(258)), S("u16", I(65535)),
      S("i32", I(-2147483647 - 1)), S("i32", I(66051)),
      S("u32", I(300)), S("u32", I(2147483647)),
      S("i64", I(-1)), S("i64", I(16909060)), S("u64", I(2147483647)),
      S("isize", I(-2)), S("usize", I(7)),
      S("f32", F32(1, 127, 4194304)), S("f32", F32(1, 0, 0)),
      S("f32", F32(0, 255, 4194305)),
      S("f64", Pi), S("f64", F64(1, 0, 0, 0)), S("f64", F64(0, 2047, 33554432, 1)) }

StringSamples ==
    { S("string", <<>>), S("string", <<233>>), S("string", Hello),
      S("string", <<128512, 8364>>) }

Raw == S("bytes", <<7, 9>>)

BytesSamples == { Raw, S("bytes", BadText) }

Samples == PrimSamples \cup StringSamples \cup BytesSamples

Scenario == { S("u32", I(300)), S("f64", Pi), S("string", Hello) }

Mixed == { S("bytes", BadText), S("string", <<233>>) }

InputSets == { {s, Raw} : s \in Samples } \cup { Mixed }

TypesOf(in) == { s.ty : s \in in }

(***************************************************************************)
(* State.                                                                  *)
(***************************************************************************)
VARIABLES
    buffer,     \* the medium's bytes
    position,   \* the stream's cursor
    faults,     \* failures the medium may still have
    holder,     \* the facades that borrow the stream
    call,       \* the last facade call: who, fn, ty, arg, pos0, ops, ret
    written,    \* history: the typed writes whose bytes are still intact
    reads,      \* history: the last seek's target and the reads that followed it
    pending,    \* the values this run's caller has yet to write
    inputs      \* the values this run's caller writes

vars == <<buffer, position, faults, holder, call, written, reads, pending, inputs>>

Stream == [buf |-> buffer, pos |-> position]

NoCall == [who |-> "none", fn |-> "none", ty |-> "none", arg |-> 0, pos0 |-> 0,
           ops |-> <<>>, ret |-> Ok(0)]

\* no seek to read back from, or a read after it failed or a write intervened
NoReads == [from |-> -1, vals |-> <<>>]

Init ==
    /\ buffer = <<>>
    /\ position = 0
    /\ holder = {}
    /\ call = NoCall
    /\ written = {}
    /\ reads = NoReads
    /\ \/ inputs \in InputSets /\ faults = MaxFaults
       \/ inputs = Scenario /\ faults = 0
    /\ pending = inputs

\* outcomes the medium may choose for a read, seek or tell, and for a write
OpOutcomes == IF faults > 0 THEN {0, -1} ELSE {0}

WriteOutcomes == IF faults > 0 THEN {0, -1} \cup (1..MaxShort) ELSE {0}

Injected(o) == IF o # 0 THEN 1 ELSE 0

\* every Stream operation of a call succeeded and, for a write, took the whole buffer
Complete(d) ==
    /\ d.ret.tag = "Ok"
    /\ \A i \in 1..Len(d.ops) :
          d.ops[i].res.tag = "Ok" /\ (d.ops[i].op = "write" => d.ops[i].res.val = d.ops[i].len)

\* the entries of the history a write over [from, to) leaves intact
Intact(w, from, to) == { e \in w : e.off + e.len <= from \/ e.off >= to }

\* the state after a reader's or writer's call d
Returned(who, fn, ty, arg, d, nf) ==
    /\ buffer' = d.st.buf
    /\ position' = d.st.pos
    /\ faults' = faults - nf
    /\ call' = [who |-> who, fn |-> fn, ty |-> ty, arg |-> arg, pos0 |-> position,
                ops |-> d.ops, ret |-> d.ret]
    /\ UNCHANGED <<holder, inputs>>

Sought(who, to, d, nf) ==
    /\ Returned(who, "seek_to", "none", to, d, nf)
    /\ reads' = IF d.ret.tag = "Ok" THEN [from |-> to, vals |-> <<>>] ELSE NoReads
    /\ UNCHANGED <<written, pending>>

Told(who, d, nf) ==
    /\ Returned(who, "get_cur_pos", "none", 0, d, nf)
    /\ UNCHANGED <<written, reads, pending>>

ReaderReturned(fn, ty, arg, d, nf) ==
    /\ Returned("reader", fn, ty, arg, d, nf)
    /\ reads' = IF d.ret.tag = "Ok" /\ reads.from >= 0
                THEN [reads EXCEPT !.vals = Append(@, [ty |-> ty, len |-> d.st.pos - position,
                                                       val |-> d.ret.val])]
                ELSE NoReads
    /\ UNCHANGED <<written, pending>>

WriterReturned(fn, ty, arg, d, nf) ==
    /\ Returned("writer", fn, ty, arg, d, nf)
    /\ pending' = pending \ {[ty |-> ty, val |-> arg]}
    /\ reads' = NoReads
    /\ written' = Intact(written, position, d.st.pos)
                  \cup (IF Complete(d)
                        THEN {[off |-> position, ty |-> ty, val |-> arg,
                               len |-> d.st.pos - position]}
                        ELSE {})

(***************************************************************************)
(* Actions: one per facade operation.                                      *)
(***************************************************************************)
\* a shared borrow, granted whatever else borrows the stream
BorrowShared(h) == TRUE

\* a &'a mut borrow of the stream is granted only while nothing borrows it
BorrowMut(h) == h = {}

BinaryReader_new ==
    /\ BorrowMut(holder)
    /\ holder' = holder \cup {"reader"}
    /\ call' = [NoCall EXCEPT !.who = "reader", !.fn = "new"]
    /\ UNCHANGED <<buffer, position, faults, written, reads, pending, inputs>>

BinaryWriter_new ==
    /\ BorrowMut(holder)
    /\ holder' = holder \cup {"writer"}
    /\ call' = [NoCall EXCEPT !.who = "writer", !.fn = "new"]
    /\ UNCHANGED <<buffer, position, faults, written, reads, pending, inputs>>

\* a facade goes out of scope; its borrow ends
Drop ==
    /\ \E who \in holder :
          /\ holder' = holder \ {who}
          /\ call' = [NoCall EXCEPT !.who = who, !.fn = "drop"]
    /\ UNCHANGED <<buffer, position, faults, written, reads, pending, inputs>>

\* offsets a caller seeks to: the start, the end, one past the end, and the
\* offsets it recorded for the values it wrote
SeekTargets == {0, Len(buffer), Len(buffer) + 1} \cup { e.off : e \in written }

ReaderSeekTo ==
    /\ "reader" \in holder
    /\ \E to \in SeekTargets, o \in OpOutcomes :
          Sought("reader", to, BinaryReader_seek_to(Stream, to, o), Injected(o))

ReaderGetCurPos ==
    /\ "reader" \in holder
    /\ \E o \in OpOutcomes :
          Told("reader", BinaryReader_get_cur_pos(Stream, o), Injected(o))

ReadPrim ==
    /\ "reader" \in holder
    /\ \E ty \in TypesOf(inputs) \cap PrimTypes, o \in OpOutcomes :
          ReaderReturned("read", ty, 0, read_prim(ty, Stream, o), Injected(o))

ReadString ==
    /\ "reader" \in holder
    /\ "string" \in TypesOf(inputs)
    /\ \E o1 \in OpOutcomes, o2 \in OpOutcomes, alloc \in BOOLEAN :
          LET d == read_string(Stream, o1, o2, alloc)
              nf == Injected(o1) + (IF Len(d.ops) = 2 THEN Injected(o2) ELSE 0)
          IN  /\ nf <= faults
              /\ ReaderReturned("read_string", "string", 0, d, nf)

\* lengths a caller asks read_bytes for: those of the raw runs it writes
ReadLens == { Len(s.val) : s \in { t \in inputs : t.ty = "bytes" } }

ReadBytes ==
    /\ "reader" \in holder
    /\ \E length \in ReadLens, o \in OpOutcomes :
          ReaderReturned("read_bytes", "bytes", length, read_bytes(Stream, length, o),
                         Injected(o))

WriterSeekTo ==
    /\ "writer" \in holder
    /\ \E to \in SeekTargets, o \in OpOutcomes :
          Sought("writer", to, BinaryWriter_seek_to(Stream, to, o), Injected(o))

WriterGetCurPos ==
    /\ "writer" \in holder
    /\ \E o \in OpOutcomes :
          Told("writer", BinaryWriter_get_cur_pos(Stream, o), Injected(o))

WritePrim ==
    /\ "writer" \in holder
    /\ \E s \in { t \in pending : t.ty \in PrimTypes }, o \in WriteOutcomes :
          WriterReturned("write", s.ty, s.val, write_prim(s.ty, Stream, s.val, o),
                         Injected(o))

WriteString ==
    /\ "writer" \in holder
    /\ \E s \in { t \in pending : t.ty = "string" },
          o1 \in WriteOutcomes, o2 \in WriteOutcomes :
          LET d == write_string(Stream, s.val, o1, o2)
              nf == Injected(o1) + (IF Len(d.ops) = 2 THEN Injected(o2) ELSE 0)
          IN  /\ nf <= faults
              /\ WriterReturned("write_string", "string", s.val, d, nf)

WriteBytes ==
    /\ "writer" \in holder
    /\ \E s \in { t \in pending : t.ty = "bytes" }, o \in WriteOutcomes :
          WriterReturned("write_bytes", "bytes", s.val, write_bytes(Stream, s.val, o),
                         Injected(o))

Next ==
    \/ BinaryReader_new \/ BinaryWriter_new \/ Drop
    \/ ReaderSeekTo \/ ReaderGetCurPos \/ ReadPrim \/ ReadString \/ ReadBytes
    \/ WriterSeekTo \/ WriterGetCurPos \/ WritePrim \/ WriteString \/ WriteBytes

Spec == Init /\ [][Next]_vars

(***************************************************************************)
(* Properties.                                                             *)
(***************************************************************************)
\* every Stream operation of the last call succeeded
StreamOk == \A i \in 1..Len(call.ops) : call.ops[i].res.tag = "Ok"

\* the intact written values of type ty that start at offset off
EntriesAt(off, ty) == { e \in written : e.off = off /\ e.ty = ty }

RECURSIVE Utf8Len(_)
\* the number of UTF-8 bytes of a string, counted scalar by scalar
Utf8Len(s) ==
    IF s = <<>> THEN 0
    ELSE (IF Head(s) < 128 THEN 1 ELSE IF Head(s) < 2048 THEN 2
          ELSE IF Head(s) < 65536 THEN 3 ELSE 4) + Utf8Len(Tail(s))

\* the width table of the wire format
TableWidth(ty, val) ==
    CASE ty \in {"i8", "u8"} -> 1
      [] ty \in {"i16", "u16"} -> 2
      [] ty \in {"i32", "u32", "f32"} -> 4
      [] ty \in {"i64", "u64", "f64", "isize", "usize"} -> 8
      [] ty = "string" -> 8 + Utf8Len(val)
      [] ty = "bytes" -> Len(val)

\* C1: a read_<T> whose stream read succeeds, issued at the offset where a
\* write_<T>(v) was wholly written and is still intact, returns Ok(v), for every
\* primitive type T (floats by their bit fields).
C1_PrimitiveRoundTrip ==
    (call.fn = "read" /\ StreamOk) =>
        \A e \in EntriesAt(call.pos0, call.ty) : call.ret = Ok(e.val)

C1_Witness ==
    /\ call.fn = "read" /\ call.ty = "f64" /\ call.pos0 = 2
    /\ call.ret = Ok(Pi)
    /\ EntriesAt(2, "f64") # {}

\* C2: a read_string whose stream reads succeed, issued where write_string(s) was
\* wholly written, returns Ok(s); and the 8 bytes write_string puts first encode
\* the number of UTF-8 bytes of s, not its number of characters.
C2_StringRoundTrip ==
    /\ (call.fn = "read_string" /\ StreamOk) =>
          \A e \in EntriesAt(call.pos0, "string") : call.ret = Ok(e.val)
    /\ (call.fn = "write_string" /\ call.ops[1].res = Ok(8)) =>
          BytesToInt(SubSeq(buffer, call.pos0 + 1, call.pos0 + 8), FALSE)
              = [n |-> Utf8Len(call.arg)]

C2_Witness ==
    /\ call.fn = "read_string"
    /\ call.ret = Ok(<<128512, 8364>>)
    /\ EntriesAt(call.pos0, "string") # {}
    /\ BytesToInt(SubSeq(buffer, call.pos0 + 1, call.pos0 + 8), FALSE) = [n |-> 7]

RECURSIVE ReadBack(_, _)
\* the reads from the i-th on return what was written, as long as each is the
\* read that corresponds to the value written at the offset it starts at
ReadBack(off, i) ==
    IF i > Len(reads.vals) THEN TRUE
    ELSE LET r == reads.vals[i]
             es == { e \in EntriesAt(off, r.ty) : e.len = r.len }
         IN  \A e \in es : r.val = e.val /\ ReadBack(off + e.len, i + 1)

\* C3: after a seek to an offset o, successful typed reads that follow the typed
\* values written from o (primitive, string or raw, in any order) return those
\* values in that order.
C3_SequenceReadBack == reads.from >= 0 => ReadBack(reads.from, 1)

C3_Witness ==
    /\ reads.from = 0
    /\ Len(reads.vals) = 3
    /\ reads.vals[1] = [ty |-> "string", len |-> 14, val |-> Hello]
    /\ reads.vals[2] = [ty |-> "f64", len |-> 8, val |-> Pi]
    /\ reads.vals[3] = [ty |-> "u32", len |-> 4, val |-> I(300)]
    /\ \E e \in written : e.off = 22 /\ e.ty = "u32"

RECURSIVE ChainSums(_)
\* the sums of table widths of the written values that tile the medium from
\* offset off to the cursor
ChainSums(off) ==
    IF off = position THEN {0}
    ELSE UNION { { TableWidth(e.ty, e.val) + s : s \in ChainSums(e.off + e.len) } :
                 e \in { x \in written : x.off = off /\ x.len > 0 } }

\* C4: write_<T> hands the stream, and read_<T> asks it for, exactly the bytes of
\* the width table (1, 2, 4, 8, and a prefix of 8 then N for a string of N UTF-8
\* bytes); so when whole typed writes tile the medium from offset 0 to the cursor,
\* get_cur_pos() is the sum of their widths, after writing and after reading back.
C4_WidthTable ==
    /\ call.fn \in {"read", "write"} =>
          /\ Len(call.ops) = 1
          /\ call.ops[1].len = TableWidth(call.ty, call.arg)
    /\ call.fn = "write_string" =>
          /\ call.ops[1].len = 8
          /\ Len(call.ops) = 2 => 8 + call.ops[2].len = TableWidth("string", call.arg)
    /\ call.fn = "read_string" =>
          /\ call.ops[1].len = 8
          /\ \A e \in EntriesAt(call.pos0, "string") :
                Len(call.ops) = 2 => 8 + call.ops[2].len = TableWidth("string", e.val)
    /\ (call.fn = "get_cur_pos" /\ call.ret.tag = "Ok") =>
          \A s \in ChainSums(0) : call.ret.val = s

C4_Witness ==
    /\ call.fn = "get_cur_pos" /\ call.who = "reader"
    /\ call.ret = Ok(26)
    /\ reads.from = 0
    /\ reads.vals = << [ty |-> "u32", len |-> 4, val |-> I(300)],
                       [ty |-> "f64", len |-> 8, val |-> Pi],
                       [ty |-> "string", len |-> 14, val |-> Hello] >>
    /\ ChainSums(0) = {26}

\* C5: read_bytes(length) with fewer than length bytes between the cursor and the
\* end of the medium returns Err(StreamError(ReadError)), never Ok.
C5_ShortReadFails ==
    (call.fn = "read_bytes" /\ call.pos0 + call.arg > Len(buffer)) =>
        call.ret = [tag |-> "Err", err |-> [kind |-> "StreamError", e |-> "ReadError"]]

C5_Witness ==
    /\ call.fn = "read_bytes"
    /\ call.pos0 < Len(buffer)
    /\ call.pos0 + call.arg > Len(buffer)
    /\ call.ret.tag = "Err"

\* C6: a read_string that reads a prefix L and then L bytes that are not UTF-8
\* returns Err(Utf8Error), and the cursor stands 8 + L bytes past where it began.
C6_MalformedText ==
    (/\ call.fn = "read_string" /\ Len(call.ops) = 2 /\ StreamOk
     /\ from_utf8(SubSeq(buffer, call.pos0 + 9, call.pos0 + 8 + call.ops[2].len)).tag = "Err")
    => /\ call.ret = [tag |-> "Err", err |-> [kind |-> "Utf8Error"]]
       /\ BytesToInt(SubSeq(buffer, call.pos0 + 1, call.pos0 + 8), FALSE)
             = [n |-> call.ops[2].len]
       /\ position = call.pos0 + 8 + call.ops[2].len

C6_Witness ==
    /\ call.fn = "read_string"
    /\ call.ret = [tag |-> "Err", err |-> [kind |-> "Utf8Error"]]
    /\ SubSeq(buffer, call.pos0 + 1, call.pos0 + 9) = BadText
    /\ position = call.pos0 + 9

\* C7: a Stream operation that fails inside a facade call is the last one the call
\* issues, and the call returns Err(StreamError(e)) with the stream's own e.
C7_StreamErrorSurfaced ==
    \A i \in 1..Len(call.ops) :
        call.ops[i].res.tag = "Err" =>
            /\ i = Len(call.ops)
            /\ call.ret = [tag |-> "Err",
                           err |-> [kind |-> "StreamError", e |-> call.ops[i].res.err]]

C7_Witness ==
    /\ call.fn = "write_string"
    /\ Len(call.ops) = 1
    /\ call.ops[1].res = StreamErr("WriteError")
    /\ call.ret = [tag |-> "Err", err |-> [kind |-> "StreamError", e |-> "WriteError"]]
    /\ position = call.pos0

\* C8: at most one facade borrows the stream at a time, and a facade's calls are
\* made while it is the one that borrows it.
C8_ExclusiveBorrow ==
    /\ Cardinality(holder) <= 1
    /\ call.fn \notin {"none", "drop"} => holder = {call.who}

C8_Witness ==
    /\ holder = {"reader"}
    /\ call.who = "reader" /\ call.fn = "read"
    /\ written # {}

TypedCalls == {"read", "write", "read_bytes", "write_bytes", "read_string", "write_string"}

\* C9 as stated: every typed call, read_string and write_string included,
\* performs exactly one Stream::read or Stream::write.
C9_AsStated == call.fn \in TypedCalls => Len(call.ops) = 1

\* C9 amended: read_<T>, write_<T>, read_bytes and write_bytes perform exactly one
\* Stream::read or Stream::write; read_string and write_string perform one for the
\* length prefix and, unless that fails or (read_string) the payload buffer cannot
\* be had, one more for the payload.
C9_OneOrTwoOperations ==
    /\ call.fn \in {"read", "read_bytes"} =>
          Len(call.ops) = 1 /\ call.ops[1].op = "read"
    /\ call.fn \in {"write", "write_bytes"} =>
          Len(call.ops) = 1 /\ call.ops[1].op = "write"
    /\ call.fn = "write_string" =>
          /\ Len(call.ops) = (IF call.ops[1].res.tag = "Ok" THEN 2 ELSE 1)
          /\ \A i \in 1..Len(call.ops) : call.ops[i].op = "write"
    /\ call.fn = "read_string" =>
          /\ Len(call.ops) =
                (IF call.ops[1].res.tag = "Ok" /\ call.ret # Panic THEN 2 ELSE 1)
          /\ \A i \in 1..Len(call.ops) : call.ops[i].op = "read"

C9_Witness ==
    /\ call.fn = "read_string"
    /\ Len(call.ops) = 2
    /\ call.ops[1].len = 8 /\ call.ops[2].len = 6
    /\ call.ret = Ok(Hello)

\* C10: the count a successful write call returns is the one its last
\* Stream::write reported, also when that is less than the buffer held, and no
\* further write follows for the remainder; for write_string it is the payload
\* write's count.
C10_ReturnedCount ==
    (call.fn \in {"write", "write_bytes", "write_string"} /\ call.ret.tag = "Ok") =>
        /\ Len(call.ops) = (IF call.fn = "write_string" THEN 2 ELSE 1)
        /\ call.ret.val = call.ops[Len(call.ops)].res.val
        /\ position = call.pos0 + (IF call.fn = "write_string"
                                   THEN call.ops[1].res.val + call.ops[2].res.val
                                   ELSE call.ops[1].res.val)

C10_Witness ==
    /\ call.fn = "write" /\ call.ty = "u32"
    /\ call.ops[1].len = 4
    /\ call.ret = Ok(3)
    /\ position = call.pos0 + 3
====
